---- MODULE Spec2Model ----
(***************************************************************************)
(* Text-to-SQL agent: schema indexing (startup_event, add_schema_to_chroma)*)
(* and the request pipeline (query_database, query_schema_from_chroma).    *)
(*                                                                         *)
(* Text is a sequence of atoms.  The characters the code inspects          *)
(* (backtick, the letters of the fence tag, whitespace) are atoms of one   *)
(* character; every other atom (an identifier, a fixed message, a SQL      *)
(* statement) is an opaque word.                                           *)
(***************************************************************************)
EXTENDS Integers, Sequences, FiniteSets, TLC

\* ------------------------------------------------------------------ bounds
MaxSchemaChanges == 2
MaxVersion == 2
MaxResults == 6
MaxBody == 3

\* --------------------------------------------------------------- constants
n_results == 5

\* The tables the database may hold, in the order inspector.get_table_names()
\* reports them (sorted by name).
TableOrder == <<"Departments", "Employees", "Projects">>

TableNames == {TableOrder[i] : i \in 1..Len(TableOrder)}

\* ------------------------------------------------------------- text helpers
RECURSIVE Join(_, _)
Join(parts, sep) ==
    IF parts = <<>> THEN <<>>
    ELSE IF Len(parts) = 1 THEN Head(parts)
    ELSE Head(parts) \o sep \o Join(Tail(parts), sep)

RECURSIVE Concat(_)
Concat(parts) ==
    IF parts = <<>> THEN <<>> ELSE Head(parts) \o Concat(Tail(parts))

RECURSIVE Count(_, _)
Count(text, atom) ==
    IF text = <<>> THEN 0
    ELSE (IF Head(text) = atom THEN 1 ELSE 0) + Count(Tail(text), atom)

\* ------------------------------------------------------- the database schema
\* What inspector.get_columns(table_name) reports for a table at a schema
\* version; version 2 is the table after an ALTER TABLE ... ADD COLUMN.
Columns(table_name, version) ==
    LET pk == [name |-> "ID", type |-> "INTEGER",
               primary_key |-> TRUE, nullable |-> TRUE]
        nm == [name |-> "Name", type |-> "TEXT",
               primary_key |-> FALSE, nullable |-> FALSE]
        dep == [name |-> "DepartmentID", type |-> "INTEGER",
                primary_key |-> FALSE, nullable |-> TRUE]
        added == [name |-> "Added", type |-> "TEXT",
                  primary_key |-> FALSE, nullable |-> TRUE]
        base == IF table_name = "Departments" THEN <<pk, nm>> ELSE <<pk, nm, dep>>
    IN  base \o [i \in 1..(version - 1) |-> added]

\* What inspector.get_foreign_keys(table_name) reports.
ForeignKeys(table_name) ==
    IF table_name = "Departments" THEN <<>>
    ELSE <<[name |-> "None", constrained_columns |-> <<"DepartmentID">>,
            referred_table |-> "Departments",
            referred_columns |-> <<"DepartmentID">>]>>

RECURSIVE SelectSeq2(_, _)
SelectSeq2(s, present) ==
    IF s = <<>> THEN <<>>
    ELSE (IF Head(s) \in present THEN <<Head(s)>> ELSE <<>>)
         \o SelectSeq2(Tail(s), present)

\* inspector.get_table_names() on database d (table name -> version, 0 absent)
get_table_names(d) == SelectSeq2(TableOrder, {t \in TableNames : d[t] > 0})

\* ---------------------------------------------- get_structured_db_schema
\* col_def and the column description of one column (app.py 125-142)
ColDef(col) ==
    <<col.name, col.type>>
    \o (IF col.primary_key THEN <<"PRIMARY KEY">> ELSE <<>>)
    \o (IF ~col.nullable THEN <<"NOT NULL">> ELSE <<>>)

ColumnDescription(col) ==
    LET constraints ==
            (IF col.primary_key THEN << <<"primary key">> >> ELSE <<>>)
            \o (IF ~col.nullable THEN << <<"not null">> >> ELSE <<>>)
    IN  <<col.name, "(", col.type, ")">>
        \o (IF constraints # <<>>
            THEN <<" ", "(">> \o Join(constraints, <<",", " ">>) \o <<")">>
            ELSE <<>>)

FkConstraint(table_name, fk) ==
    <<"ALTER TABLE", table_name, "ADD CONSTRAINT", fk.name, "FOREIGN KEY", "(">>
    \o Join([i \in 1..Len(fk.constrained_columns) |-> <<fk.constrained_columns[i]>>],
            <<",", " ">>)
    \o <<")", "REFERENCES", fk.referred_table, "(">>
    \o Join([i \in 1..Len(fk.referred_columns) |-> <<fk.referred_columns[i]>>],
            <<",", " ">>)
    \o <<")", ";">>

FkDesc(table_name, fk) ==
    <<table_name, ".">>
    \o Join([i \in 1..Len(fk.constrained_columns) |-> <<fk.constrained_columns[i]>>],
            <<",", " ">>)
    \o <<"->", fk.referred_table, ".">>
    \o Join([i \in 1..Len(fk.referred_columns) |-> <<fk.referred_columns[i]>>],
            <<",", " ">>)

\* The entry appended to structured_schema["tables"] for one table
TableEntry(table_name, version) ==
    LET columns == Columns(table_name, version)
        foreign_keys == ForeignKeys(table_name)
        col_definitions == [i \in 1..Len(columns) |-> ColDef(columns[i])]
        column_descriptions == [i \in 1..Len(columns) |-> ColumnDescription(columns[i])]
        base_ddl == <<"CREATE TABLE", table_name, "(", "\n">>
                    \o Join(col_definitions, <<",", "\n">>) \o <<"\n", ");">>
        fk_ddl == Concat([i \in 1..Len(foreign_keys) |->
                            <<"\n">> \o FkConstraint(table_name, foreign_keys[i])])
    IN  [name |-> table_name,
         ddl |-> base_ddl \o fk_ddl,
         description |-> <<"Table", table_name, "with columns:">>
                         \o Join(column_descriptions, <<",", " ">>),
         columns |-> column_descriptions,
         foreign_keys |-> [i \in 1..Len(foreign_keys) |->
                              FkDesc(table_name, foreign_keys[i])]]

\* The entries appended to structured_schema["relationships"] for one table
RelationshipEntries(table_name) ==
    LET foreign_keys == ForeignKeys(table_name)
    IN  [i \in 1..Len(foreign_keys) |->
            [from_table |-> table_name,
             from_columns |-> foreign_keys[i].constrained_columns,
             to_table |-> foreign_keys[i].referred_table,
             to_columns |-> foreign_keys[i].referred_columns,
             description |-> FkDesc(table_name, foreign_keys[i])]]

\* structured_schema after the loop has read the first n tables of table_names
RECURSIVE ReadTables(_, _, _)
ReadTables(d, table_names, n) ==
    IF n = 0 THEN [tables |-> <<>>, relationships |-> <<>>, error |-> <<>>]
    ELSE LET sofar == ReadTables(d, table_names, n - 1)
             t == table_names[n]
         IN  [tables |-> Append(sofar.tables, TableEntry(t, d[t])),
              relationships |-> sofar.relationships \o RelationshipEntries(t),
              error |-> <<>>]

\* variant: on a failure the tables read so far are returned, with no error
get_structured_db_schema_Partial(d, failAt) ==
    LET table_names == get_table_names(d)
    IN  ReadTables(d, table_names,
                   IF failAt = 0 THEN Len(table_names)
                   ELSE IF failAt = 1 THEN 0 ELSE failAt - 2)

\* get_structured_db_schema on database d.  failAt = 0: no call raises;
\* failAt = 1: create_engine/inspect/get_table_names raises; failAt = j + 1:
\* a metadata call for the j-th table raises, after j - 1 tables were read.
\* "error" is <<>> when the dict has no such key.
get_structured_db_schema(d, failAt) ==
    LET table_names == get_table_names(d)
    IN  IF failAt = 0
        THEN ReadTables(d, table_names, Len(table_names))
        ELSE [tables |-> <<>>, relationships |-> <<>>,
              error |-> <<"Could not retrieve database schema. Details:", "e">>]

\* ------------------------------------------------------ embedding provider
\* ollama.embeddings(model, prompt=text)['embedding'].  The model is outside the
\* repository; it is taken as a fixed map from a text to a vector: here how
\* often the text mentions each table.
get_ollama_embedding(text) ==
    [i \in 1..Len(TableOrder) |-> Count(text, TableOrder[i])]

RECURSIVE SumSq(_, _, _)
SumSq(u, v, n) ==
    IF n = 0 THEN 0 ELSE (u[n] - v[n]) * (u[n] - v[n]) + SumSq(u, v, n - 1)

\* the collection's distance (squared L2, the store's default)
Distance(u, v) == SumSq(u, v, Len(u))

\* ------------------------------------------------------------ vector index
\* variant: the id is built from the table name alone
TableId_NameOnly(table_name, i) ==
    [kind |-> "schema_table", name |-> table_name, i |-> 0]

TableId(table_name, i) == [kind |-> "schema_table", name |-> table_name, i |-> i]

\* variant: the relationship ids carry no number
RelId_Unnumbered(i) == [kind |-> "schema_rel", name |-> "", i |-> 0]

RelId(i) == [kind |-> "schema_rel", name |-> "", i |-> i]

\* variant: the batch replaces the collection's contents
Upsert_ReplacingAll(idx, ids, documents, metadatas, embeddings) ==
    [id \in {ids[j] : j \in 1..Len(ids)} |->
        LET j == CHOOSE k \in 1..Len(ids) : ids[k] = id
        IN  [document |-> documents[j], metadata |-> metadatas[j],
             embedding |-> embeddings[j]]]

\* variant: an id the collection holds keeps what is stored (collection.add)
Upsert_AddOnly(idx, ids, documents, metadatas, embeddings) ==
    LET batch == {ids[j] : j \in 1..Len(ids)}
        first(id) == CHOOSE j \in 1..Len(ids) :
                        ids[j] = id /\ \A k \in 1..Len(ids) : ids[k] = id => j <= k
    IN  [id \in (DOMAIN idx) \cup batch |->
            IF id \in DOMAIN idx
            THEN idx[id]
            ELSE [document |-> documents[first(id)],
                  metadata |-> metadatas[first(id)],
                  embedding |-> embeddings[first(id)]]]

\* collection.upsert(documents, metadatas, ids, embeddings) on the collection's
\* contents idx (id -> document, metadata, embedding)
Upsert(idx, ids, documents, metadatas, embeddings) ==
    LET batch == {ids[j] : j \in 1..Len(ids)}
        last(id) == CHOOSE j \in 1..Len(ids) :
                        ids[j] = id /\ \A k \in 1..Len(ids) : ids[k] = id => k <= j
    IN  [id \in (DOMAIN idx) \cup batch |->
            IF id \in batch
            THEN [document |-> documents[last(id)],
                  metadata |-> metadatas[last(id)],
                  embedding |-> embeddings[last(id)]]
            ELSE idx[id]]

\* the ids of the n nearest documents of candidates, nearest first
RECURSIVE Nearest(_, _, _, _)
Nearest(idx, candidates, query_embedding, n) ==
    IF n = 0 \/ candidates = {} THEN <<>>
    ELSE LET best == CHOOSE x \in candidates : \A y \in candidates :
                        Distance(idx[x].embedding, query_embedding)
                            <= Distance(idx[y].embedding, query_embedding)
         IN  <<best>> \o Nearest(idx, candidates \ {best}, query_embedding, n - 1)

\* collection.query(query_embeddings=[q], n_results=n): results['documents'][0]
Query(idx, query_embedding, n) ==
    LET hits == Nearest(idx, DOMAIN idx, query_embedding, n)
    IN  [j \in 1..Len(hits) |-> idx[hits[j]].document]

\* ---------------------------------------------------- add_schema_to_chroma
\* documents, metadatas and ids built from schema_info (chroma_utils.py 78-101)
BuildDocuments(schema_info) ==
    LET tables == schema_info.tables
        rels == schema_info.relationships
    IN  [documents |->
            [j \in 1..Len(tables) |->
                <<"Table: ", tables[j].name, "\n", "DDL: ">> \o tables[j].ddl
                \o <<"\n", "Description: ">> \o tables[j].description]
            \o [j \in 1..Len(rels) |-> rels[j].description],
         metadatas |->
            [j \in 1..Len(tables) |->
                [type |-> "table_schema", table_name |-> tables[j].name]]
            \o [j \in 1..Len(rels) |-> [type |-> "relationship"]],
         ids |->
            [j \in 1..Len(tables) |-> TableId(tables[j].name, j - 1)]
            \o [j \in 1..Len(rels) |-> RelId(j - 1)]]

\* variant: the ids are numbered on from the collection's size
add_schema_to_chroma_NumberedFromCount(coll, idx, schema_info, embedFail) ==
    LET b0 == BuildDocuments(schema_info)
        n == Len(b0.documents)
        ids == [j \in 1..n |->
                  [b0.ids[j] EXCEPT !.i = @ + Cardinality(DOMAIN idx)]]
    IN  IF n > 0 /\ embedFail \in 1..n
        THEN [raised |-> TRUE, collection |-> TRUE, index |-> idx,
              ids |-> ids, documents |-> b0.documents]
        ELSE [raised |-> FALSE, collection |-> TRUE,
              index |-> IF n > 0
                        THEN Upsert(idx, ids, b0.documents, b0.metadatas,
                                    [j \in 1..n |-> get_ollama_embedding(b0.documents[j])])
                        ELSE idx,
              ids |-> ids, documents |-> b0.documents]

\* variant: each document is upserted as soon as it is embedded, so the
\* documents before the one whose embedding raises are written
add_schema_to_chroma_WritesAsEmbedded(coll, idx, schema_info, embedFail) ==
    LET b == BuildDocuments(schema_info)
        n == Len(b.documents)
        m == IF n > 0 /\ embedFail \in 1..n THEN embedFail - 1 ELSE n
    IN  [raised |-> (n > 0 /\ embedFail \in 1..n), collection |-> TRUE,
         index |-> IF m > 0
                   THEN Upsert(idx, SubSeq(b.ids, 1, m), SubSeq(b.documents, 1, m),
                               SubSeq(b.metadatas, 1, m),
                               [j \in 1..m |-> get_ollama_embedding(b.documents[j])])
                   ELSE idx,
         ids |-> b.ids, documents |-> b.documents]

\* add_schema_to_chroma(client, schema_info) on a store whose collection exists
\* iff coll and holds idx.  embedFail = j > 0: get_ollama_embedding raises for
\* the j-th document (no failure when the batch has fewer documents).
add_schema_to_chroma(coll, idx, schema_info, embedFail) ==
    LET b == BuildDocuments(schema_info)
        n == Len(b.documents)
    IN  IF n > 0 /\ embedFail \in 1..n
        THEN [raised |-> TRUE, collection |-> TRUE, index |-> idx,
              ids |-> b.ids, documents |-> b.documents]
        ELSE [raised |-> FALSE, collection |-> TRUE,
              index |-> IF n > 0
                        THEN Upsert(idx, b.ids, b.documents, b.metadatas,
                                    [j \in 1..n |-> get_ollama_embedding(b.documents[j])])
                        ELSE idx,
              ids |-> b.ids, documents |-> b.documents]

\* ------------------------------------------------------------ startup_event
\* outcome: "schema_error" (the warning and return of line 200-202), "failed"
\* (the except of line 208), "indexed" (the success message of line 207).
startup_event(d, coll, idx, failAt, embedFail) ==
    LET structured_schema == get_structured_db_schema(d, failAt)
        r == add_schema_to_chroma(coll, idx, structured_schema, embedFail)
    IN  IF structured_schema.error # <<>>
        THEN [outcome |-> "schema_error", collection |-> coll, index |-> idx,
              ids |-> <<>>, documents |-> <<>>, tables |-> <<>>]
        ELSE [outcome |-> IF r.raised THEN "failed" ELSE "indexed",
              collection |-> r.collection, index |-> r.index,
              ids |-> r.ids, documents |-> r.documents,
              tables |-> [j \in 1..Len(structured_schema.tables) |->
                            structured_schema.tables[j].name]]

\* ------------------------------------------------------------ get_db_schema
\* Python's str.strip, startswith and endswith on a text
Whitespace == {" ", "\n", "\t"}

RECURSIVE LStrip(_)
LStrip(text) ==
    IF text # <<>> /\ Head(text) \in Whitespace THEN LStrip(Tail(text)) ELSE text

RECURSIVE RStrip(_)
RStrip(text) ==
    IF text # <<>> /\ text[Len(text)] \in Whitespace
    THEN RStrip(SubSeq(text, 1, Len(text) - 1))
    ELSE text

Strip(text) == RStrip(LStrip(text))

StartsWith(text, prefix) ==
    Len(text) >= Len(prefix) /\ SubSeq(text, 1, Len(prefix)) = prefix

EndsWith(text, suffix) ==
    Len(text) >= Len(suffix)
    /\ SubSeq(text, Len(text) - Len(suffix) + 1, Len(text)) = suffix

\* the strings get_db_schema appends to schema_info for one table
SchemaInfoParts(table_name, version) ==
    LET columns == Columns(table_name, version)
        foreign_keys == ForeignKeys(table_name)
    IN  << <<"CREATE TABLE", table_name, "(">>,
           Join([i \in 1..Len(columns) |-> ColDef(columns[i])], <<",", "\n">>),
           <<");">> >>
        \o [i \in 1..Len(foreign_keys) |-> FkConstraint(table_name, foreign_keys[i])]
        \o << <<"\n">> >>

\* "\n".join(schema_info) over all tables of database d
FullSchemaText(d) ==
    LET table_names == get_table_names(d)
    IN  Join(Concat([i \in 1..Len(table_names) |->
                        SchemaInfoParts(table_names[i], d[table_names[i]])]),
             <<"\n">>)

\* variant: the failure is swallowed and an empty schema text returned
get_db_schema_EmptyOnError(d, ok) ==
    IF ok THEN FullSchemaText(d) ELSE <<>>

\* get_db_schema on database d; ok = FALSE: a call of the try block raises
get_db_schema(d, ok) ==
    IF ok
    THEN FullSchemaText(d)
    ELSE <<"Error", ": Could not retrieve database schema. Details: ", "e">>

\* ------------------------------------------------- query_schema_from_chroma
\* The results carry the store as the call leaves it: whether the collection
\* exists (collection) and what it holds (index).

\* variant: the question is embedded before the collection is looked up
query_schema_from_chroma_EmbedFirst(coll, idx, natural_language_query, n, embedOK) ==
    IF ~embedOK
    THEN [raised |-> TRUE, embedded |-> TRUE, snippets |-> <<>>,
          collection |-> coll, index |-> idx]
    ELSE IF ~coll
    THEN [raised |-> FALSE, embedded |-> TRUE, snippets |-> <<>>,
          collection |-> coll, index |-> idx]
    ELSE [raised |-> FALSE, embedded |-> TRUE,
          snippets |-> Query(idx, get_ollama_embedding(natural_language_query), n),
          collection |-> coll, index |-> idx]

\* variant: an embedding failure is swallowed and no snippet returned
query_schema_from_chroma_SwallowEmbeddingError(coll, idx, natural_language_query, n, embedOK) ==
    IF ~coll \/ ~embedOK
    THEN [raised |-> FALSE, embedded |-> coll, snippets |-> <<>>,
          collection |-> coll, index |-> idx]
    ELSE [raised |-> FALSE, embedded |-> TRUE,
          snippets |-> Query(idx, get_ollama_embedding(natural_language_query), n),
          collection |-> coll, index |-> idx]

\* variant: the collection is looked up with get_or_create_collection
query_schema_from_chroma_CreatesCollection(coll, idx, natural_language_query, n, embedOK) ==
    IF ~embedOK
    THEN [raised |-> TRUE, embedded |-> TRUE, snippets |-> <<>>,
          collection |-> TRUE, index |-> idx]
    ELSE [raised |-> FALSE, embedded |-> TRUE,
          snippets |-> Query(idx, get_ollama_embedding(natural_language_query), n),
          collection |-> TRUE, index |-> idx]

\* variant: the farthest of several documents is left out
query_schema_from_chroma_DropsFarthest(coll, idx, natural_language_query, n, embedOK) ==
    LET documents == Query(idx, get_ollama_embedding(natural_language_query), n)
    IN  IF ~coll
        THEN [raised |-> FALSE, embedded |-> FALSE, snippets |-> <<>>,
              collection |-> coll, index |-> idx]
        ELSE IF ~embedOK
        THEN [raised |-> TRUE, embedded |-> TRUE, snippets |-> <<>>,
              collection |-> coll, index |-> idx]
        ELSE [raised |-> FALSE, embedded |-> TRUE,
              snippets |-> IF Len(documents) > 1
                           THEN SubSeq(documents, 1, Len(documents) - 1)
                           ELSE documents,
              collection |-> coll, index |-> idx]

\* embedOK = FALSE: get_ollama_embedding raises when it is called
query_schema_from_chroma(coll, idx, natural_language_query, n, embedOK) ==
    IF ~coll
    THEN [raised |-> FALSE, embedded |-> FALSE, snippets |-> <<>>,
          collection |-> coll, index |-> idx]
    ELSE IF ~embedOK
    THEN [raised |-> TRUE, embedded |-> TRUE, snippets |-> <<>>,
          collection |-> coll, index |-> idx]
    ELSE [raised |-> FALSE, embedded |-> TRUE,
          snippets |-> Query(idx, get_ollama_embedding(natural_language_query), n),
          collection |-> coll, index |-> idx]

\* ------------------------------------------------------------ query_database
\* the atom of the backtick character
Backtick == "<backtick>"

FenceOpen == <<Backtick, Backtick, Backtick, "s", "q", "l">>

FenceClose == <<Backtick, Backtick, Backtick>>

ExtractionSentinel == <<"Error: Could not extract SQL from Langflow response.">>

\* The loop over langflow_result['outputs'] (app.py 288-293).  An output is
\* [message: whether results.message is there, has_text: whether
\* message['data']['text'] is there, text].
RECURSIVE ExtractSQL(_)
ExtractSQL(outputs) ==
    IF outputs = <<>>
    THEN [raised |-> FALSE, found |-> FALSE, generated_sql |-> ExtractionSentinel]
    ELSE IF Head(outputs).message
    THEN IF Head(outputs).has_text
         THEN [raised |-> FALSE, found |-> TRUE,
               generated_sql |-> Strip(Head(outputs).text)]
         ELSE [raised |-> TRUE, found |-> FALSE, generated_sql |-> ExtractionSentinel]
    ELSE ExtractSQL(Tail(outputs))

\* variant: the text between the markers is taken as it is
Cleanup_KeepsBodyWhitespace(generated_sql) ==
    IF StartsWith(generated_sql, FenceOpen) /\ EndsWith(generated_sql, FenceClose)
    THEN SubSeq(generated_sql, Len(FenceOpen) + 1,
                Len(generated_sql) - Len(FenceClose))
    ELSE generated_sql

\* the "basic cleanup" of app.py 298-299
Cleanup(generated_sql) ==
    IF StartsWith(generated_sql, FenceOpen) /\ EndsWith(generated_sql, FenceClose)
    THEN Strip(SubSeq(generated_sql, Len(FenceOpen) + 1,
                      Len(generated_sql) - Len(FenceClose)))
    ELSE generated_sql

\* SQL statements the gateway may produce
SelectEmployees == "SELECT Name FROM Employees"

SelectNothing == "SELECT 1 WHERE 0"

Malformed == "SELEC nope"

\* connection.execute(text(generated_sql)) and the row loop (app.py 303-313) on
\* database d; dbUp = FALSE: the connection cannot be opened
Execute(d, generated_sql, dbUp) ==
    IF ~dbUp
    THEN [ok |-> FALSE, rows |-> <<>>, error |-> "unable to open database file"]
    ELSE IF generated_sql = <<SelectEmployees>>
    THEN IF d["Employees"] > 0
         THEN [ok |-> TRUE, rows |-> <<[Name |-> "Alice"], [Name |-> "Bob"]>>,
               error |-> ""]
         ELSE [ok |-> FALSE, rows |-> <<>>, error |-> "no such table: Employees"]
    ELSE IF generated_sql = <<SelectNothing>>
    THEN [ok |-> TRUE, rows |-> <<>>, error |-> ""]
    ELSE [ok |-> FALSE, rows |-> <<>>, error |-> "syntax error"]

\* QueryResponse(sql_query, query_result), a 200 response
QueryResponse(sql_query, query_result) ==
    [status |-> 200, sql_query |-> sql_query, query_result |-> query_result]

\* HTTPException(status_code=500, detail): a response with no result fields
HTTPException(detail) == [status |-> 500, detail |-> detail]

\* An exception that leaves the handler: the framework's plain 500
InternalServerError == [status |-> 500, detail |-> <<"Internal Server Error">>]

\* variant: a failed execution is answered with no rows
ExecutionResponse_EmptyRowsOnFailure(generated_sql, e) ==
    QueryResponse(generated_sql, e.rows)

\* The response after the executor ran (app.py 315-331): its HTTPException is
\* raised inside the outer try block, whose "except Exception" catches it and
\* raises the generic one with str(e) = "500: <detail>".
ExecutionResponse(generated_sql, e) ==
    IF e.ok
    THEN QueryResponse(generated_sql, e.rows)
    ELSE HTTPException(<<"An unexpected error occurred: ", "500: ",
                         "Database query failed. Possible invalid SQL: ", e.error>>)

\* variant: a failed gateway call is made a second time, and the request goes
\* on with the sentinel text when that fails too
GatewayStage_RetryOnFailure(d, gw, dbUp) ==
    LET x == ExtractSQL(gw.outputs)
        generated_sql == Cleanup(x.generated_sql)
        e == Execute(d, generated_sql, dbUp)
    IN  [calls |-> IF gw.kind = "ok" THEN 1 ELSE 2,
         extraction |-> IF x.found THEN "found" ELSE "none",
         gateway_text |-> x.generated_sql,
         executed |-> <<generated_sql>>,
         execution |-> IF e.ok THEN "ok" ELSE "failed",
         db_error |-> e.error,
         resp |-> ExecutionResponse(generated_sql, e)]

\* variant: after a failed execution another statement is executed and its
\* result returned
GatewayStage_RetryModifiedQuery(d, gw, dbUp) ==
    LET x == ExtractSQL(gw.outputs)
        generated_sql == Cleanup(x.generated_sql)
        e == Execute(d, generated_sql, dbUp)
        again == Execute(d, <<SelectNothing>>, dbUp)
    IN  IF gw.kind = "connection_error"
        THEN [calls |-> 1,
              extraction |-> "not_run", gateway_text |-> <<>>, executed |-> <<>>,
              execution |-> "not_run", db_error |-> "",
              resp |-> HTTPException(
                          <<"Could not connect to Langflow API. Is Langflow running?">>)]
        ELSE IF gw.kind # "ok"
        THEN [calls |-> 1,
              extraction |-> "not_run", gateway_text |-> <<>>, executed |-> <<>>,
              execution |-> "not_run", db_error |-> "",
              resp |-> HTTPException(<<"Error from Langflow API: ", gw.error>>)]
        ELSE IF x.raised
        THEN [calls |-> 1,
              extraction |-> "raised", gateway_text |-> <<>>, executed |-> <<>>,
              execution |-> "not_run", db_error |-> "",
              resp |-> HTTPException(<<"An unexpected error occurred: ", "'data'">>)]
        ELSE IF e.ok
        THEN [calls |-> 1,
              extraction |-> IF x.found THEN "found" ELSE "none",
              gateway_text |-> x.generated_sql,
              executed |-> <<generated_sql>>,
              execution |-> "ok", db_error |-> e.error,
              resp |-> ExecutionResponse(generated_sql, e)]
        ELSE [calls |-> 1,
              extraction |-> IF x.found THEN "found" ELSE "none",
              gateway_text |-> x.generated_sql,
              executed |-> <<generated_sql, <<SelectNothing>>>>,
              execution |-> IF again.ok THEN "ok" ELSE "failed",
              db_error |-> again.error,
              resp |-> ExecutionResponse(<<SelectNothing>>, again)]

\* The response of the try block (app.py 277-331) for gateway answer gw:
\* kind "connection_error" (requests.post raises ConnectionError), "http_error"
\* (raise_for_status raises), "bad_json" (response.json() raises requests'
\* JSONDecodeError, a RequestException) or "ok" with the outputs of the body;
\* gw.error is str(e) of the exception.  calls: the calls of requests.post.
GatewayStage(d, gw, dbUp) ==
    LET x == ExtractSQL(gw.outputs)
        generated_sql == Cleanup(x.generated_sql)
        e == Execute(d, generated_sql, dbUp)
    IN  IF gw.kind = "connection_error"
        THEN [calls |-> 1,
              extraction |-> "not_run", gateway_text |-> <<>>, executed |-> <<>>,
              execution |-> "not_run", db_error |-> "",
              resp |-> HTTPException(
                          <<"Could not connect to Langflow API. Is Langflow running?">>)]
        ELSE IF gw.kind # "ok"
        THEN [calls |-> 1,
              extraction |-> "not_run", gateway_text |-> <<>>, executed |-> <<>>,
              execution |-> "not_run", db_error |-> "",
              resp |-> HTTPException(<<"Error from Langflow API: ", gw.error>>)]
        ELSE IF x.raised
        THEN [calls |-> 1,
              extraction |-> "raised", gateway_text |-> <<>>, executed |-> <<>>,
              execution |-> "not_run", db_error |-> "",
              resp |-> HTTPException(<<"An unexpected error occurred: ", "'data'">>)]
        ELSE [calls |-> 1,
              extraction |-> IF x.found THEN "found" ELSE "none",
              gateway_text |-> x.generated_sql,
              executed |-> <<generated_sql>>,
              execution |-> IF e.ok THEN "ok" ELSE "failed",
              db_error |-> e.error,
              resp |-> ExecutionResponse(generated_sql, e)]

NotHandled ==
    [handled |-> FALSE, question |-> <<>>, schema_read |-> "not_run",
     full_db_schema |-> <<>>, retrieval |-> "not_run", embed_failed |-> FALSE,
     snippets |-> <<>>, schema_context |-> <<>>,
     gateway |-> "not_called", gateway_calls |-> 0, gateway_error |-> "",
     gateway_outputs |-> <<>>,
     extraction |-> "not_run", gateway_text |-> <<>>, executed |-> <<>>,
     execution |-> "not_run", db_error |-> "",
     fault |-> "none", resp |-> [status |-> 0],
     store |-> [collection |-> FALSE, index |-> <<>>]]

\* query_database(request): the record of what one request did and its response
query_database(d, coll, idx, user_query, schemaOK, clientOK, embedOK, gw, dbUp) ==
    LET full_db_schema == get_db_schema(d, schemaOK)
        r == query_schema_from_chroma(coll, idx, user_query, n_results, embedOK)
        schema_context_for_llm ==
            IF r.snippets # <<>>
            THEN Join(r.snippets, <<"\n">>)
            ELSE full_db_schema
        g == GatewayStage(d, gw, dbUp)
        started == [NotHandled EXCEPT !.handled = TRUE, !.question = user_query,
                                      !.full_db_schema = full_db_schema,
                                      !.store = [collection |-> coll, index |-> idx]]
        after == [collection |-> r.collection, index |-> r.index]
    IN  IF StartsWith(full_db_schema, <<"Error">>)
        THEN [started EXCEPT !.schema_read = "failed",
                             !.resp = HTTPException(full_db_schema)]
        ELSE IF ~clientOK
        THEN [started EXCEPT !.schema_read = "ok", !.resp = InternalServerError]
        ELSE IF r.raised
        THEN [started EXCEPT !.schema_read = "ok", !.retrieval = "raised",
                             !.embed_failed = TRUE, !.resp = InternalServerError,
                             !.store = after]
        ELSE [started EXCEPT !.schema_read = "ok", !.retrieval = "ok",
                             !.store = after,
                             !.snippets = r.snippets,
                             !.schema_context = schema_context_for_llm,
                             !.gateway = gw.kind, !.gateway_calls = g.calls,
                             !.gateway_error = gw.error,
                             !.gateway_outputs = gw.outputs,
                             !.extraction = g.extraction,
                             !.gateway_text = g.gateway_text,
                             !.executed = g.executed,
                             !.execution = g.execution,
                             !.db_error = g.db_error,
                             !.resp = g.resp]

\* How a caller tells the failures apart: by the message the detail starts with
ErrorClass(resp) ==
    LET first == Head(resp.detail)
    IN  IF first = "Error" THEN "SchemaIntrospectionError"
        ELSE IF first \in {"Could not connect to Langflow API. Is Langflow running?",
                           "Error from Langflow API: "}
        THEN "GenerationGatewayError"
        ELSE IF first = "Database query failed. Possible invalid SQL: "
        THEN "QueryExecutionError"
        ELSE IF first = "An unexpected error occurred: " THEN "UnexpectedError"
        ELSE "InternalServerError"

\* ------------------------------------------------------------- input sets
Questions ==
    { <<"names", "of", "Employees", "in", "Departments">>, <<"list", "Projects">> }

GatewayTexts ==
    { <<" ", SelectEmployees, "\n">>,
      FenceOpen \o <<"\n", SelectEmployees, "\n">> \o FenceClose,
      <<SelectNothing>>,
      <<Malformed>>,
      FenceOpen \o <<" ", SelectEmployees>> }

NoMessage == [message |-> FALSE, has_text |-> FALSE, text |-> <<>>]

NoText == [message |-> TRUE, has_text |-> FALSE, text |-> <<>>]

Message(t) == [message |-> TRUE, has_text |-> TRUE, text |-> t]

GatewayOutputs ==
    { <<>>, <<NoMessage>>, <<NoText>>,
      <<NoMessage, Message(<<SelectNothing>>)>>,
      <<Message(<<" ", SelectEmployees, "\n">>), Message(<<Malformed>>)>> }
    \cup { <<Message(t)>> : t \in GatewayTexts }

\* str(e) of the exception a failed gateway call raises
GatewayErrors ==
    { [kind |-> "connection_error", outputs |-> <<>>, error |-> "Connection refused"],
      [kind |-> "http_error", outputs |-> <<>>,
       error |-> "502 Server Error: Bad Gateway for url"],
      [kind |-> "http_error", outputs |-> <<>>,
       error |-> "404 Client Error: Not Found for url"],
      [kind |-> "bad_json", outputs |-> <<>>, error |-> "Expecting value"] }

GatewayAnswers ==
    GatewayErrors
    \cup { [kind |-> "ok", outputs |-> o, error |-> ""] : o \in GatewayOutputs }

\* the call of a request that fails, if any
Faults == {"none", "schema", "client", "embed", "db"}

\* ------------------------------------------------------------ state machine
VARIABLES
    db,          \* the database: table name -> schema version, 0 when absent
    changes,     \* schema changes made so far
    collection,  \* whether the persistent store holds the collection
    index,       \* the collection: id -> document, metadata, embedding
    run,         \* the last startup_event: its outcome, its batch, the database it read
    upserted,    \* history: the (table name, position) pairs of upserted batches
    boot,        \* the startup_event that has just run, until the app serves
    req,         \* the request that has just run and its response, until delivered
    start,       \* the store when the concurrent processes started
    jobs,        \* concurrent startup_event runs: process -> its position and locals
    lookups      \* concurrent retrievals: process -> its position and locals

vars == <<db, changes, collection, index, run, upserted, boot, req,
          start, jobs, lookups>>

\* the variables of the concurrent processes
concurrent == <<start, jobs, lookups>>

\* the variables of the one-process application
sequential == <<changes, run, upserted, boot, req>>

NoRun ==
    [outcome |-> "none", ids |-> <<>>, documents |-> <<>>, tables |-> <<>>,
     db |-> [t \in TableNames |-> 0]]

\* fail_at and embed_fail: the call that raised (0: none); repeat: the run
\* before this one ended "indexed" on the same database
NoBoot == [done |-> FALSE, fail_at |-> 0, embed_fail |-> 0, repeat |-> FALSE]

Idle == ~boot.done /\ ~req.handled /\ lookups = <<>>

\* create_db.py: Employees and Departments; an empty persistent store
Init ==
    /\ db = [t \in TableNames |-> IF t = "Projects" THEN 0 ELSE 1]
    /\ changes = 0
    /\ collection = FALSE
    /\ index = <<>>
    /\ run = NoRun
    /\ upserted = {}
    /\ boot = NoBoot
    /\ req = NotHandled
    /\ start = [collection |-> FALSE, index |-> <<>>]
    /\ jobs = <<>>
    /\ lookups = <<>>

CreateTable(t) ==
    /\ Idle
    /\ changes < MaxSchemaChanges
    /\ db[t] = 0
    /\ db' = [db EXCEPT ![t] = 1]
    /\ changes' = changes + 1
    /\ UNCHANGED <<collection, index, run, upserted, boot, req>>
    /\ UNCHANGED concurrent

DropTable(t) ==
    /\ Idle
    /\ changes < MaxSchemaChanges
    /\ db[t] > 0
    /\ db' = [db EXCEPT ![t] = 0]
    /\ changes' = changes + 1
    /\ UNCHANGED <<collection, index, run, upserted, boot, req>>
    /\ UNCHANGED concurrent

AlterTable(t) ==
    /\ Idle
    /\ changes < MaxSchemaChanges
    /\ db[t] > 0
    /\ db[t] < MaxVersion
    /\ db' = [db EXCEPT ![t] = db[t] + 1]
    /\ changes' = changes + 1
    /\ UNCHANGED <<collection, index, run, upserted, boot, req>>
    /\ UNCHANGED concurrent

\* A process start: startup_event runs against the persistent store
Startup ==
    /\ Idle
    /\ \E failAt \in 0..(Len(get_table_names(db)) + 1) :
         \E embedFail \in
              0..Len(BuildDocuments(get_structured_db_schema(db, 0)).documents) :
            LET s == startup_event(db, collection, index, failAt, embedFail)
            IN  /\ collection' = s.collection
                /\ index' = s.index
                /\ run' = [outcome |-> s.outcome, ids |-> s.ids,
                           documents |-> s.documents, tables |-> s.tables,
                           db |-> db]
                /\ boot' = [done |-> TRUE, fail_at |-> failAt,
                            embed_fail |-> IF s.outcome = "failed"
                                           THEN embedFail ELSE 0,
                            repeat |-> (run.outcome = "indexed" /\ run.db = db)]
                /\ upserted' =
                      IF s.outcome = "indexed"
                      THEN upserted
                           \cup {<<s.tables[j], j - 1>> : j \in 1..Len(s.tables)}
                      ELSE upserted
    /\ UNCHANGED <<db, changes, req>>
    /\ UNCHANGED concurrent

\* startup_event has returned: the application serves requests
Serve ==
    /\ boot.done
    /\ boot' = NoBoot
    /\ UNCHANGED <<db, changes, collection, index, run, upserted, req>>
    /\ UNCHANGED concurrent

\* One request to /query-database.  The step that fails first decides the
\* response, so one call at most is made to fail.
Request ==
    /\ Idle
    /\ \E user_query \in Questions, gw \in GatewayAnswers, fault \in Faults :
          LET q == query_database(db, collection, index, user_query,
                                  fault # "schema", fault # "client",
                                  fault # "embed", gw, fault # "db")
          IN  /\ req' = [q EXCEPT !.fault = fault]
              /\ collection' = q.store.collection
              /\ index' = q.store.index
    /\ UNCHANGED <<db, changes, run, upserted, boot>>
    /\ UNCHANGED concurrent

\* The client reads the response (streamlit_app.py 52-84)
Respond ==
    /\ req.handled
    /\ req' = NotHandled
    /\ UNCHANGED <<db, changes, collection, index, run, upserted, boot>>
    /\ UNCHANGED concurrent

Next ==
    \/ \E t \in TableNames : CreateTable(t)
    \/ \E t \in TableNames : DropTable(t)
    \/ \E t \in TableNames : AlterTable(t)
    \/ Startup
    \/ Serve
    \/ Request
    \/ Respond

Spec == Init /\ [][Next]_vars

\* ------------------------------------------------- concurrent processes
\* Several processes of the application on one database and one persistent
\* store: startup_event runs (jobs) and retrievals of requests (lookups), each
\* a sequence of calls to the database, the embedding provider and the store.
Jobs == {"job1", "job2"}

Lookups == {"lookup1", "lookup2"}

\* the database of create_db.py, databases that differ from it in one table,
\* and the database with no table
RaceDatabases ==
    { [t \in TableNames |-> IF t = "Projects" THEN 0 ELSE 1],
      [t \in TableNames |-> IF t = "Projects" THEN 0
                            ELSE IF t = "Employees" THEN MaxVersion ELSE 1],
      [t \in TableNames |-> IF t = "Employees" THEN 1 ELSE 0],
      [t \in TableNames |-> 1],
      [t \in TableNames |-> 0] }

\* the store before the processes start: no collection, an empty collection,
\* or what one startup_event run over some database left
StoresBefore ==
    { [collection |-> c, index |-> <<>>] : c \in BOOLEAN }
    \cup { [collection |-> TRUE,
            index |-> startup_event(d, FALSE, <<>>, 0, 0).index] : d \in RaceDatabases }

JobStart ==
    [pc |-> "start", outcome |-> "none",
     schema_info |-> [tables |-> <<>>, relationships |-> <<>>, error |-> <<>>],
     embeddings |-> <<>>]

LookupStart ==
    [pc |-> "start", question |-> <<>>, n_results |-> n_results,
     raised |-> FALSE, snippets |-> <<>>]

InitRace ==
    /\ db \in RaceDatabases
    /\ start \in StoresBefore
    /\ collection = start.collection
    /\ index = start.index
    /\ jobs = [w \in Jobs |-> JobStart]
    /\ lookups = [r \in Lookups |-> LookupStart]
    /\ changes = 0
    /\ run = NoRun
    /\ upserted = {}
    /\ boot = NoBoot
    /\ req = NotHandled

\* startup_event: get_structured_db_schema and the error test (app.py 198-202)
ReadSchema(w) ==
    /\ jobs[w].pc = "start"
    /\ \E failAt \in 0..(Len(get_table_names(db)) + 1) :
          LET structured_schema == get_structured_db_schema(db, failAt)
          IN  jobs' = [jobs EXCEPT ![w] =
                          IF structured_schema.error # <<>>
                          THEN [@ EXCEPT !.pc = "done", !.outcome = "schema_error"]
                          ELSE [@ EXCEPT !.pc = "schema_read",
                                         !.schema_info = structured_schema]]
    /\ UNCHANGED <<db, collection, index, start, lookups>>
    /\ UNCHANGED sequential

\* add_schema_to_chroma: client.get_or_create_collection (chroma_utils.py 75)
GetOrCreateCollection(w) ==
    /\ jobs[w].pc = "schema_read"
    /\ collection' = TRUE
    /\ jobs' = [jobs EXCEPT ![w].pc = "collection"]
    /\ UNCHANGED <<db, index, start, lookups>>
    /\ UNCHANGED sequential

\* add_schema_to_chroma: the batch and its embeddings (chroma_utils.py 78-109);
\* with no document the job ends with the success message of startup_event
EmbedDocuments(w) ==
    /\ jobs[w].pc = "collection"
    /\ LET b == BuildDocuments(jobs[w].schema_info)
           n == Len(b.documents)
       IN  \E embedFail \in 0..n :
              jobs' = [jobs EXCEPT ![w] =
                          IF n = 0
                          THEN [@ EXCEPT !.pc = "done", !.outcome = "indexed"]
                          ELSE IF embedFail > 0
                          THEN [@ EXCEPT !.pc = "done", !.outcome = "failed"]
                          ELSE [@ EXCEPT !.pc = "embedded",
                                         !.embeddings =
                                            [j \in 1..n |->
                                                get_ollama_embedding(b.documents[j])]]]
    /\ UNCHANGED <<db, collection, index, start, lookups>>
    /\ UNCHANGED sequential

\* add_schema_to_chroma: collection.upsert (chroma_utils.py 112-117)
UpsertBatch(w) ==
    /\ jobs[w].pc = "embedded"
    /\ LET b == BuildDocuments(jobs[w].schema_info)
       IN  index' = Upsert(index, b.ids, b.documents, b.metadatas, jobs[w].embeddings)
    /\ jobs' = [jobs EXCEPT ![w].pc = "done", ![w].outcome = "indexed"]
    /\ UNCHANGED <<db, collection, start, lookups>>
    /\ UNCHANGED sequential

\* query_schema_from_chroma: client.get_collection and the return of no
\* snippet when it raises (chroma_utils.py 135-140)
GetCollection(r) ==
    /\ lookups[r].pc = "start"
    /\ \E user_query \in Questions :
          LET res == query_schema_from_chroma(collection, index, user_query,
                                              n_results, TRUE)
          IN  IF collection
              THEN /\ lookups' = [lookups EXCEPT ![r].pc = "collection",
                                                 ![r].question = user_query]
                   /\ UNCHANGED <<collection, index>>
              ELSE /\ lookups' = [lookups EXCEPT ![r].pc = "done",
                                                 ![r].question = user_query,
                                                 ![r].raised = res.raised,
                                                 ![r].snippets = res.snippets]
                   /\ collection' = res.collection
                   /\ index' = res.index
    /\ UNCHANGED <<db, start, jobs>>
    /\ UNCHANGED sequential

\* query_schema_from_chroma: the embedding of the question and collection.query
\* (chroma_utils.py 143-164)
QueryCollection(r) ==
    /\ lookups[r].pc = "collection"
    /\ \E embedOK \in BOOLEAN :
          LET res == query_schema_from_chroma(collection, index, lookups[r].question,
                                              n_results, embedOK)
          IN  /\ lookups' = [lookups EXCEPT ![r].pc = "done",
                                             ![r].raised = res.raised,
                                             ![r].snippets = res.snippets]
              /\ collection' = res.collection
              /\ index' = res.index
    /\ UNCHANGED <<db, start, jobs>>
    /\ UNCHANGED sequential

NextRace ==
    \/ \E w \in Jobs : ReadSchema(w)
    \/ \E w \in Jobs : GetOrCreateCollection(w)
    \/ \E w \in Jobs : EmbedDocuments(w)
    \/ \E w \in Jobs : UpsertBatch(w)
    \/ \E r \in Lookups : GetCollection(r)
    \/ \E r \in Lookups : QueryCollection(r)

SpecRace == InitRace /\ [][NextRace]_vars

\* ------------------------------------------------------ retrieval alone
\* query_schema_from_chroma called with any number of results, on what the
\* startup runs of the application have left in the store
Retrieve ==
    /\ Idle
    /\ \E user_query \in Questions, k \in 1..MaxResults, embedOK \in BOOLEAN :
          LET res == query_schema_from_chroma(collection, index, user_query, k, embedOK)
          IN  /\ lookups' = [r \in {"call"} |->
                                [pc |-> "done", question |-> user_query,
                                 n_results |-> k, raised |-> res.raised,
                                 snippets |-> res.snippets]]
              /\ collection' = res.collection
              /\ index' = res.index
    /\ UNCHANGED <<db, start, jobs>>
    /\ UNCHANGED sequential

\* the caller has the list
Return ==
    /\ lookups # <<>>
    /\ lookups' = <<>>
    /\ UNCHANGED <<db, collection, index, start, jobs>>
    /\ UNCHANGED sequential

NextRetrieve ==
    \/ \E t \in TableNames : CreateTable(t)
    \/ \E t \in TableNames : DropTable(t)
    \/ \E t \in TableNames : AlterTable(t)
    \/ Startup
    \/ Serve
    \/ Retrieve
    \/ Return

SpecRetrieve == Init /\ [][NextRetrieve]_vars

\* ------------------------------------------------- gateway texts at large
\* Texts the gateway may answer with: whitespace, an opening marker or
\* something like it, a body of up to MaxBody atoms, a closing marker or
\* something like it, whitespace.
BodyAtoms == {" ", "\n", Backtick, SelectEmployees}

Bodies == UNION { [1..n -> BodyAtoms] : n \in 0..MaxBody }

Margins == { <<>>, <<" ">>, <<"\n", "\t">> }

Openings ==
    { FenceOpen, <<>>, FenceClose, <<Backtick, Backtick, "s", "q", "l">>,
      <<Backtick, Backtick, Backtick, "S", "Q", "L">>,
      FenceOpen \o <<"i", "t", "e">> }

Closings ==
    { FenceClose, <<>>, <<Backtick, Backtick>>, FenceClose \o <<";">> }

CleanupTexts ==
    { lead \o opening \o body \o closing \o trail :
        lead \in Margins, opening \in Openings, body \in Bodies,
        closing \in Closings, trail \in Margins }

\* A request whose every call succeeds and whose gateway answers with one
\* message of any of these texts
RequestWithText ==
    /\ Idle
    /\ \E user_query \in Questions, gateway_text \in CleanupTexts :
          LET q == query_database(db, collection, index, user_query, TRUE, TRUE, TRUE,
                                  [kind |-> "ok", outputs |-> <<Message(gateway_text)>>,
                                   error |-> ""],
                                  TRUE)
          IN  /\ req' = q
              /\ collection' = q.store.collection
              /\ index' = q.store.index
    /\ UNCHANGED <<db, changes, run, upserted, boot>>
    /\ UNCHANGED concurrent

NextCleanup ==
    \/ RequestWithText
    \/ Respond

SpecCleanup == Init /\ [][NextCleanup]_vars

\* ----------------------------------------------------------------- claims
Range(seq) == {seq[j] : j \in 1..Len(seq)}

\* the ids of the indexed table documents of table t
TableDocIds(t) ==
    {id \in DOMAIN index :
        /\ index[id].metadata.type = "table_schema"
        /\ index[id].metadata.table_name = t}

\* the step is a run of startup_event
StartupStep == ~boot.done /\ boot'.done

\* C1 as stated: whenever retrieval runs on an absent or empty collection it
\* returns no snippet without raising and the request goes on with the full
\* schema text as its context.
C1_Original ==
    (req.handled /\ req.schema_read = "ok" /\ req.fault # "client"
        /\ (~collection \/ DOMAIN index = {}))
    => /\ req.retrieval = "ok"
       /\ req.snippets = <<>>
       /\ req.schema_context = req.full_db_schema
       /\ req.gateway_calls = 1

\* C1 amended: retrieval on an absent collection, or on an empty one when the
\* embedding of the question does not fail, returns no snippet without
\* raising, and the request goes on to the gateway with the full schema text
\* of get_db_schema as its context.
C1_EmptyRetrievalFallsBack ==
    (req.handled /\ req.schema_read = "ok" /\ req.fault # "client"
        /\ (~collection \/ (DOMAIN index = {} /\ req.fault # "embed")))
    => /\ req.retrieval = "ok"
       /\ req.snippets = <<>>
       /\ req.schema_context = req.full_db_schema
       /\ req.schema_context = get_db_schema(db, TRUE)
       /\ req.gateway_calls = 1

C1_Witness ==
    /\ req.handled /\ req.fault = "embed" /\ ~collection
    /\ req.retrieval = "ok" /\ req.snippets = <<>>
    /\ req.schema_context # <<>>
    /\ req.resp.status = 200

\* C2: a run of the indexing job on the database the run before it indexed
\* builds the same ids and documents and leaves the index as it was.
C2_IdempotentIndexing ==
    [][(StartupStep /\ run.outcome = "indexed" /\ run'.outcome = "indexed"
            /\ run.db = db)
       => /\ run'.ids = run.ids
          /\ run'.documents = run.documents
          /\ index' = index
          /\ collection' = collection]_vars

C2_Witness ==
    /\ boot.done /\ boot.repeat
    /\ run.outcome = "indexed" /\ run.ids # <<>>

\* C3 as stated: the index never holds two table documents of one table name.
C3_Original ==
    \A t \in TableNames : Cardinality(TableDocIds(t)) <= 1

\* C3 amended: the id of a table document is fixed by the table's name and its
\* position in the table list of the run, so the index holds exactly one table
\* document for each (table name, position) that an upserted batch had.
C3_OneDocPerNameAndPosition ==
    \A t \in TableNames :
        /\ {<<id.name, id.i>> : id \in TableDocIds(t)} = {p \in upserted : p[1] = t}
        /\ Cardinality(TableDocIds(t)) = Cardinality({p \in upserted : p[1] = t})

C3_Witness ==
    \E t \in TableNames :
        /\ Cardinality({p \in upserted : p[1] = t}) >= 2
        /\ Cardinality(TableDocIds(t)) >= 2

\* C4: no step removes the collection or a document; a step changes only
\* documents whose id is in the batch of a run that ended "indexed", and such
\* a run leaves each id of its batch with the batch's document, metadata and
\* vector.
C4_UpsertOnly ==
    [][/\ (collection => collection')
       /\ DOMAIN index \subseteq DOMAIN index'
       /\ \A id \in DOMAIN index :
             index'[id] # index[id]
             => (StartupStep /\ run'.outcome = "indexed" /\ id \in Range(run'.ids))
       /\ (StartupStep /\ run'.outcome = "indexed")
          => /\ DOMAIN index' = DOMAIN index \cup Range(run'.ids)
             /\ \A j \in 1..Len(run'.ids) :
                   /\ index'[run'.ids[j]].document = run'.documents[j]
                   /\ index'[run'.ids[j]].embedding
                        = get_ollama_embedding(run'.documents[j])
                   /\ index'[run'.ids[j]].metadata.type
                        = (IF run'.ids[j].kind = "schema_table"
                           THEN "table_schema" ELSE "relationship")]_vars

\* a run has just replaced documents and left a document of a table that is
\* gone from the database
C4_Witness ==
    /\ boot.done /\ run.outcome = "indexed" /\ run.ids # <<>>
    /\ \E id \in DOMAIN index :
          /\ id \notin Range(run.ids)
          /\ index[id].metadata.type = "table_schema"
          /\ db[index[id].metadata.table_name] = 0

\* a step of the request has failed
StepFailed ==
    \/ req.fault \in {"schema", "client"}
    \/ req.schema_read = "failed"
    \/ req.retrieval = "raised"
    \/ req.gateway \in {"connection_error", "http_error", "bad_json"}
    \/ req.extraction \in {"none", "raised"}
    \/ req.execution = "failed"

\* C5: a 200 response comes only from a request all of whose steps succeeded,
\* its sql_query is the gateway's text after cleanup, the one statement that
\* was executed, and its query_result the rows of that execution; a request
\* with a failed step ends in a 500 response that has no result field.
C5_SuccessOnlyWhenAllStepsSucceed ==
    req.handled =>
        /\ req.resp.status \in {200, 500}
        /\ req.resp.status = 200 =>
              /\ ~StepFailed
              /\ req.schema_read = "ok" /\ req.retrieval = "ok"
              /\ req.gateway = "ok" /\ req.extraction = "found"
              /\ req.execution = "ok"
              /\ req.resp.sql_query = Cleanup(req.gateway_text)
              /\ req.executed = <<req.resp.sql_query>>
              /\ Execute(db, req.resp.sql_query, TRUE).ok
              /\ req.resp.query_result = Execute(db, req.resp.sql_query, TRUE).rows
        /\ StepFailed =>
              /\ req.resp.status = 500
              /\ DOMAIN req.resp = {"status", "detail"}

\* a fenced answer was cleaned, executed and returned with its rows
C5_Witness ==
    /\ req.handled /\ req.resp.status = 200
    /\ StartsWith(req.gateway_text, FenceOpen)
    /\ req.resp.sql_query = <<SelectEmployees>>
    /\ req.resp.query_result # <<>>

\* C6 as stated: a failed execution ends in a 500 response of the
\* query-execution class that carries the database's error text.
C6_ExecutionFailureClassified ==
    (req.handled /\ req.fault = "none"
        /\ req.extraction = "found" /\ req.execution = "failed")
    => /\ req.resp.status = 500
       /\ ErrorClass(req.resp) = "QueryExecutionError"
       /\ req.db_error \in Range(req.resp.detail)

\* C7 as stated: when the gateway's answer holds no results.message the
\* request fails as an extraction failure and nothing is executed.
C7_ExtractionFailureDistinct ==
    (req.handled /\ req.fault = "none"
        /\ req.gateway = "ok" /\ req.extraction = "none")
    => /\ req.resp.status = 500
       /\ ErrorClass(req.resp) \notin
             {"GenerationGatewayError", "QueryExecutionError", "UnexpectedError"}
       /\ req.executed = <<>>

\* C8 as stated: a request whose schema read fails is still served, from the
\* documents retrieved from the index.
C8_Original ==
    (req.handled /\ req.fault = "schema" /\ DOMAIN index # {})
    => /\ req.retrieval = "ok"
       /\ req.snippets # <<>>
       /\ req.gateway_calls = 1

\* C8 amended: a request whose schema read fails ends in a 500 response that
\* carries the schema error, before retrieval and the gateway, whatever the
\* index holds; a failed introspection of the last startup run does not fail
\* a request whose own schema read succeeds: it is served from the indexed
\* documents, or from the full schema text when nothing is indexed.
C8_SchemaFailureFailsRequestOnly ==
    req.handled =>
        /\ req.fault = "schema" =>
              /\ req.resp.status = 500
              /\ ErrorClass(req.resp) = "SchemaIntrospectionError"
              /\ req.retrieval = "not_run"
              /\ req.gateway_calls = 0
              /\ req.executed = <<>>
        /\ (run.outcome = "schema_error" /\ req.fault \in {"none", "db"}) =>
              /\ req.retrieval = "ok"
              /\ req.gateway_calls = 1
              /\ Len(req.snippets) = (IF Cardinality(DOMAIN index) < n_results
                                      THEN Cardinality(DOMAIN index)
                                      ELSE n_results)
              /\ \A j \in 1..Len(req.snippets) :
                    \E id \in DOMAIN index : index[id].document = req.snippets[j]
              /\ req.schema_context
                    = (IF DOMAIN index = {}
                       THEN req.full_db_schema
                       ELSE Join(req.snippets, <<"\n">>))

C8_Witness ==
    /\ req.handled /\ req.fault = "schema"
    /\ DOMAIN index # {}
    /\ req.resp.status = 500

C10_FailedIntrospectionIndexesNothing ==
    [][(StartupStep /\ boot'.fail_at > 0)
       => /\ run'.outcome = "schema_error"
          /\ run'.tables = <<>> /\ run'.ids = <<>> /\ run'.documents = <<>>
          /\ index' = index
          /\ collection' = collection
          /\ upserted' = upserted]_vars

\* the call for the second table raised, over a populated index
C10_Witness ==
    /\ boot.done /\ boot.fail_at >= 3
    /\ run.outcome = "schema_error"
    /\ DOMAIN index # {}

\* the gateway call of the request failed
GatewayFailed == req.gateway \in {"connection_error", "http_error", "bad_json"}

RequestStep == (~req.handled /\ req'.handled) \/ lookups' # lookups

\* C12: no step of a request, be the request served or failed and whatever
\* other retrievals and indexing runs are in progress, changes the store: the
\* collection exists after the step iff it did before, with the same ids,
\* documents, vectors and metadata.
C12_RequestLeavesIndexUnchanged ==
    [][RequestStep => (collection' = collection /\ index' = index)]_vars

\* two retrievals have run to their end and the collection is still absent
C12_Witness ==
    /\ ~collection
    /\ \A r \in Lookups : lookups[r].pc = "done" /\ lookups[r].snippets = <<>>

\* the batch of a run over the database, and what a run writes for its j-th id
RaceBatch == BuildDocuments(get_structured_db_schema(db, 0))

Written(j) ==
    [document |-> RaceBatch.documents[j],
     metadata |-> RaceBatch.metadatas[j],
     embedding |-> get_ollama_embedding(RaceBatch.documents[j])]

AllJobsDone == \A w \in Jobs : jobs[w].pc = "done"

SomeJobIndexed == \E w \in Jobs : jobs[w].outcome = "indexed"

\* C13: while indexing runs over one database interleave, every stored
\* document is whole: it is what the store held before, or the document,
\* metadata and vector that one run wrote for its id; no id is lost.  When
\* all runs have ended, the index is what a single run leaves: each id of the
\* batch holds the batch's document, metadata and vector, every other id what
\* it held before, and there is no further id; if no run got to its upsert
\* the index is as it was.
C13_InterleavedRunsEqualOneRun ==
    /\ DOMAIN start.index \subseteq DOMAIN index
    /\ \A id \in DOMAIN index :
          \/ id \in DOMAIN start.index /\ index[id] = start.index[id]
          \/ \E w \in Jobs : \E j \in 1..Len(RaceBatch.ids) :
                /\ jobs[w].outcome = "indexed"
                /\ RaceBatch.ids[j] = id
                /\ index[id] = [document |-> RaceBatch.documents[j],
                                metadata |-> RaceBatch.metadatas[j],
                                embedding |-> jobs[w].embeddings[j]]
    /\ AllJobsDone =>
          IF SomeJobIndexed
          THEN /\ collection
               /\ DOMAIN index = DOMAIN start.index \cup Range(RaceBatch.ids)
               /\ \A j \in 1..Len(RaceBatch.ids) : index[RaceBatch.ids[j]] = Written(j)
               /\ \A id \in DOMAIN index \ Range(RaceBatch.ids) :
                     index[id] = start.index[id]
          ELSE index = start.index

\* both runs have upserted over a store that held another document under one
\* of their ids
C13_Witness ==
    /\ \A w \in Jobs : jobs[w].pc = "done" /\ jobs[w].outcome = "indexed"
    /\ \E id \in DOMAIN start.index : index[id] # start.index[id]
    /\ \E id \in DOMAIN start.index : id \notin Range(RaceBatch.ids)

\* C14: a call of query_schema_from_chroma that returns, for any question and
\* any number n of results asked for, gives the documents of the n nearest
\* indexed documents, or of all when the index holds fewer: no more than n, no
\* more than the index holds, each the content of an indexed document, in
\* the order of the index's answer, nearest first, none left out.
C14_TopKInIndexOrder ==
    \A r \in DOMAIN lookups :
        LET c == lookups[r]
            q == get_ollama_embedding(c.question)
            hits == Nearest(index, DOMAIN index, q, c.n_results)
            d(id) == Distance(index[id].embedding, q)
        IN  (c.pc = "done" /\ ~c.raised) =>
               /\ Len(c.snippets) <= c.n_results
               /\ Len(c.snippets) <= Cardinality(DOMAIN index)
               /\ Len(c.snippets) = (IF Cardinality(DOMAIN index) < c.n_results
                                     THEN Cardinality(DOMAIN index)
                                     ELSE c.n_results)
               /\ Len(c.snippets) = Len(hits)
               /\ \A j \in 1..Len(hits) :
                     /\ hits[j] \in DOMAIN index
                     /\ c.snippets[j] = index[hits[j]].document
               /\ \A i, j \in 1..Len(hits) :
                     i < j => (hits[i] # hits[j] /\ d(hits[i]) <= d(hits[j]))
               /\ \A id \in DOMAIN index \ Range(hits) :
                     \A j \in 1..Len(hits) : d(hits[j]) <= d(id)

\* fewer documents were asked for than the index holds, at different distances
C14_Witness ==
    \E r \in DOMAIN lookups :
        LET c == lookups[r]
            q == get_ollama_embedding(c.question)
        IN  /\ c.pc = "done" /\ ~c.raised
            /\ c.n_results >= 2
            /\ Len(c.snippets) = c.n_results
            /\ c.n_results < Cardinality(DOMAIN index)
            /\ \E a, b \in DOMAIN index :
                  /\ index[a].document = c.snippets[1]
                  /\ index[b].document = c.snippets[c.n_results]
                  /\ Distance(index[a].embedding, q) < Distance(index[b].embedding, q)

\* the foreign keys of database d: (table, number of the key in the table)
ForeignKeysOf(d) ==
    UNION { {<<t, k>> : k \in 1..Len(ForeignKeys(t))} : t \in {u \in TableNames : d[u] > 0} }

\* the positions of the batch of the last run whose id is of kind k
BatchPositions(k) == {j \in 1..Len(run.ids) : run.ids[j].kind = k}

\* C15: the batch that a run builds from its snapshot has one document for
\* each table of the database and one for each foreign key, and no other; its
\* ids are pairwise distinct, so when the batch is upserted every id of it
\* holds its own document.
C15_BatchIdsDistinct ==
    run.outcome \in {"indexed", "failed"} =>
        /\ Len(run.documents) = Len(run.ids)
        /\ Len(run.ids) = Len(get_table_names(run.db))
                          + Cardinality(ForeignKeysOf(run.db))
        /\ \A i, j \in 1..Len(run.ids) : i # j => run.ids[i] # run.ids[j]
        /\ \A t \in TableNames :
              Cardinality({j \in BatchPositions("schema_table") : run.ids[j].name = t})
                 = (IF run.db[t] > 0 THEN 1 ELSE 0)
        /\ \A j \in BatchPositions("schema_table") :
              run.documents[j][2] = run.ids[j].name
        /\ Cardinality(BatchPositions("schema_rel")) = Cardinality(ForeignKeysOf(run.db))
        /\ {run.documents[j] : j \in BatchPositions("schema_rel")}
              = {FkDesc(p[1], ForeignKeys(p[1])[p[2]]) : p \in ForeignKeysOf(run.db)}
        /\ BatchPositions("schema_table") \cup BatchPositions("schema_rel")
              = 1..Len(run.ids)
        /\ run.outcome = "indexed" =>
              /\ Range(run.ids) \subseteq DOMAIN index
              /\ \A j \in 1..Len(run.ids) :
                    index[run.ids[j]].document = run.documents[j]

\* a batch of three tables and two relationships has been upserted
C15_Witness ==
    /\ run.outcome = "indexed"
    /\ Cardinality(BatchPositions("schema_table")) = Len(TableOrder)
    /\ Cardinality(BatchPositions("schema_rel")) >= 2
    /\ Cardinality(DOMAIN index) >= Len(run.ids)

\* the text of the message the handler takes from the gateway's outputs
RECURSIVE FirstMessageText(_)
FirstMessageText(outputs) ==
    IF Head(outputs).message THEN Head(outputs).text
    ELSE FirstMessageText(Tail(outputs))

\* text has no whitespace at either end
Trimmed(text) ==
    text = <<>> \/ (Head(text) \notin Whitespace /\ text[Len(text)] \notin Whitespace)

\* text with the whitespace at its ends removed: the part from its first to
\* its last atom that is not whitespace
TrimOf(text) ==
    LET solid == {j \in 1..Len(text) : text[j] \notin Whitespace}
    IN  IF solid = {} THEN <<>>
        ELSE SubSeq(text, CHOOSE j \in solid : \A k \in solid : j <= k,
                          CHOOSE j \in solid : \A k \in solid : k <= j)

\* C16: the statement a request executes, and returns when the execution
\* succeeds, is got from the text of the gateway's message as follows: when
\* the text with its surrounding whitespace removed is the opening marker, a
\* body and the closing marker, it is the body with its surrounding
\* whitespace removed; otherwise it is the text with its surrounding
\* whitespace removed.
C16_FenceCleanup ==
    (req.handled /\ req.gateway = "ok" /\ req.extraction = "found") =>
        LET t == TrimOf(FirstMessageText(req.gateway_outputs))
            body == SubSeq(t, Len(FenceOpen) + 1, Len(t) - Len(FenceClose))
            wrapped == /\ Len(t) >= Len(FenceOpen) + Len(FenceClose)
                       /\ t = FenceOpen \o body \o FenceClose
        IN  /\ Len(req.executed) = 1
            /\ Trimmed(t)
            /\ wrapped => (req.executed[1] = TrimOf(body) /\ Trimmed(req.executed[1]))
            /\ ~wrapped => req.executed[1] = t
            /\ req.resp.status = 200 => req.resp.sql_query = req.executed[1]

\* a fenced text with whitespace around it and inside the markers was cleaned
\* to the statement, executed and returned
C16_Witness ==
    /\ req.handled /\ req.resp.status = 200
    /\ LET raw == FirstMessageText(req.gateway_outputs)
       IN  /\ Head(raw) \in Whitespace
           /\ raw[Len(raw)] \in Whitespace
           /\ Len(raw) > Len(req.gateway_text)
    /\ StartsWith(req.gateway_text, FenceOpen \o <<"\n">>)
    /\ EndsWith(req.gateway_text, <<"\n">> \o FenceClose)
    /\ req.executed = <<<<SelectEmployees>>>>
    /\ req.resp.sql_query = <<SelectEmployees>>

\* C17: a request executes at most one statement; it executes one only when
\* its one gateway call returned an answer and the extraction did not raise,
\* and the statement is the extracted text after cleanup; a 200 response
\* reports that statement; after a failed execution nothing else is executed
\* and the response is a 500 with no statement and no rows.
C17_ExecutorCalledOnce ==
    req.handled =>
        /\ Len(req.executed) <= 1
        /\ (req.executed = <<>>) <=> (req.execution = "not_run")
        /\ req.executed # <<>> =>
              /\ req.gateway = "ok" /\ req.gateway_calls = 1
              /\ req.extraction \in {"found", "none"}
              /\ req.executed[1] = Cleanup(req.gateway_text)
        /\ req.resp.status = 200 =>
              /\ req.execution = "ok"
              /\ req.executed = <<req.resp.sql_query>>
        /\ req.execution = "failed" =>
              /\ Len(req.executed) = 1
              /\ req.resp.status = 500
              /\ DOMAIN req.resp = {"status", "detail"}

\* the statement of the gateway was rejected by the database and the request
\* ended after that one execution
C17_Witness ==
    /\ req.handled /\ req.fault = "none"
    /\ req.extraction = "found" /\ req.execution = "failed"
    /\ req.executed = <<<<Malformed>>>>
    /\ req.resp.status = 500

\* the step is the handling of a request after a startup run that failed, on a
\* collection without documents, and the request gets to its retrieval
RequestAfterFailedRun ==
    /\ ~req.handled /\ req'.handled
    /\ run.outcome = "failed" /\ DOMAIN index = {}
    /\ req'.schema_read = "ok" /\ req'.fault # "client"

\* the request went on with the full schema text as its context
FellBack(r) ==
    /\ r.retrieval = "ok"
    /\ r.snippets = <<>>
    /\ r.schema_context = r.full_db_schema
    /\ r.gateway_calls = 1

\* a startup run in which the embedding of a document raises writes nothing
BatchWritesNothing ==
    (StartupStep /\ boot'.embed_fail > 0) =>
        /\ run'.outcome = "failed"
        /\ index' = index
        /\ upserted' = upserted
        /\ collection'

\* C18 as stated: a run whose embedding fails writes no document of its
\* batch, and a request after it on the empty collection falls back to the
\* full schema text.
C18_Original ==
    [][/\ BatchWritesNothing
       /\ RequestAfterFailedRun => FellBack(req')]_vars

\* C18 amended: a run whose embedding fails for any document of its batch
\* writes no document, whatever the number of documents embedded before, but
\* leaves the collection created; a request after it on the empty collection
\* falls back to the full schema text when the embedding of its question
\* succeeds, and ends in a 500 response before the gateway when that
\* embedding raises.
C18_FailedBatchWritesNothing ==
    [][/\ BatchWritesNothing
       /\ RequestAfterFailedRun =>
             /\ collection
             /\ req'.fault # "embed" => FellBack(req')
             /\ req'.fault = "embed" =>
                   /\ req'.retrieval = "raised"
                   /\ req'.resp.status = 500
                   /\ req'.schema_context = <<>>
                   /\ req'.gateway_calls = 0]_vars

\* the first run failed at the embedding of a later document of its batch
\* and left an empty collection; a request then fell back and was served
C18_Witness ==
    /\ run.outcome = "failed" /\ Len(run.documents) >= 2
    /\ collection /\ DOMAIN index = {}
    /\ req.handled /\ req.fault = "none"
    /\ FellBack(req)
    /\ req.resp.status = 200

====
